---- MODULE Spec2Model ----
(***************************************************************************)
(* Model of the image resize / upload flow of the e-commerce repository:   *)
(*   utils/image_handler.py  ImageHandler, image_handler,                  *)
(*                           process_product_image                         *)
(*   produto/models.py       Produto.save                                  *)
(* One process (a synchronous, single-threaded request) imports the        *)
(* handler module, receives an image field and runs the handler path and   *)
(* the model's save on it, one call at a time.                             *)
(***************************************************************************)
EXTENDS Integers, Sequences, FiniteSets, TLC

\* ------------------------------------------------------------- bounds
MaxSmallWidth == 2
MaxOver == 2
MaxHeight == 3
MaxArgWidth == 3
TallHeight == 600

\* ------------------------------------------------- program constants
max_width == 800
jpeg_quality == 60
new_width == 800
save_quality == 60

\* ------------------------------------------------------ Python values
PyNone == [py |-> "None"]
PyStr(s) == [py |-> "str", s |-> s]
PyInt(n) == [py |-> "int", n |-> n]
Exc(type, at) == [py |-> "exc", type |-> type, at |-> at]

\* `not x` is false for a non-empty str and true for None and ''.
Truthy(v) == v.py = "str" /\ v.s # ""

\* any([...]): one credential is enough.
AnyTruthy(vs) == \E i \in 1..Len(vs) : Truthy(vs[i])

\* all([...]) over the three credentials.
AllTruthy(vs) == \A i \in 1..Len(vs) : Truthy(vs[i])

Return(v) == [out |-> "return", value |-> v]
Raise(e) == [out |-> "raise", exc |-> e]

\* ------------------------------------------------------------- inputs
EnvValues == {PyNone, PyStr(""), PyStr("cred")}
Environs == [AWS_STORAGE_BUCKET_NAME : EnvValues,
             AWS_S3_ENDPOINT_URL : EnvValues,
             AWS_SECRET_ACCESS_KEY : EnvValues]

JpegIncompatible == {"RGBA", "LA", "P"}
Modes == {"RGB"} \cup JpegIncompatible

Widths == (1..MaxSmallWidth) \cup {new_width - 1, new_width}
          \cup ((new_width + 1)..(new_width + MaxOver)) \cup {2 * new_width}
Heights == (1..MaxHeight) \cup {TallHeight}

\* A file-like object holding an image as it was uploaded.
ImageFiles == [kind : {"file"}, width : Widths, height : Heights,
               mode : Modes, enc : {<<"orig", 0>>}]
\* A file-like object whose bytes are no image, and an object without read().
CorruptFile == [kind |-> "corrupt"]
NoReadObject == [kind |-> "noread"]
\* The attribute `file` is absent.
NoFile == [kind |-> "absent"]
Files == ImageFiles \cup {CorruptFile, NoReadObject, NoFile}

Names == {<<"a.jpg">>, <<"produto_imagens", "2024", "01", "a.jpg">>}
EmptyField == [name |-> <<>>, file |-> NoFile]
Fields == {EmptyField} \cup [name : Names, file : Files]

\* bool(image_field): a FieldFile is truthy when it has a name.
FieldTruthy(f) == f.name # <<>>
HasFileAttr(f) == f.file # NoFile
HasRead(x) == x.kind \in {"file", "corrupt"}

\* os.path.basename
basename(name) == IF name = <<>> THEN <<>> ELSE <<name[Len(name)]>>

\* ---------------------------------------------------------------- PIL
\* Image.open
ImageOpen(f) ==
  IF f.kind = "file"
  THEN Return([kind |-> "pil", width |-> f.width, height |-> f.height,
               mode |-> f.mode])
  ELSE Raise(Exc("UnidentifiedImageError", "open"))

\* img.resize((w, h), Image.LANCZOS)
PilResize(img, w, h) ==
  IF w < 1 \/ h < 1
  THEN Raise(Exc("ValueError", "resize"))
  ELSE Return([img EXCEPT !.width = w, !.height = h])

\* img.save(buffer, format='JPEG', quality=q, optimize=True)
PilSaveJpeg(img, q) ==
  IF img.mode \in JpegIncompatible
  THEN Raise(Exc("OSError", "save"))
  ELSE Return([kind |-> "file", width |-> img.width, height |-> img.height,
               mode |-> img.mode, enc |-> <<"JPEG", q>>])

\* int(a * b / c) for positive integers
ScaledHeight(width, h, w) == (width * h) \div w

\* ------------------------------------------------------- ImageHandler
\* ImageHandler.__init__: the instance, or the exception it raises.
ImageHandler(environ) ==
  LET self == [max_width |-> max_width,
               jpeg_quality |-> jpeg_quality,
               bucket_name |-> environ.AWS_STORAGE_BUCKET_NAME,
               supabase_url |-> environ.AWS_S3_ENDPOINT_URL,
               supabase_key |-> environ.AWS_SECRET_ACCESS_KEY]
  IN IF ~AllTruthy(<<self.bucket_name, self.supabase_url, self.supabase_key>>)
     THEN Raise(Exc("Exception", "__init__"))
     ELSE Return(self)

\* The conversion to RGB of the modes JPEG cannot hold.
ConvertForJpeg(img) ==
  IF img.mode \in {"RGBA", "LA", "P"} THEN [img EXCEPT !.mode = "RGB"] ELSE img

\* The resize of resize_image: only when the image is wider than max_width.
HandlerResize(img, mw) ==
  IF img.width > mw
  THEN PilResize(img, mw, ScaledHeight(mw, img.height, img.width))
  ELSE Return(img)

\* ImageHandler.resize_image: Return(buffer) or Raise(e); `raise e` hands on
\* the exception it caught.
resize_image(self, image_file, max_width_arg) ==
  LET mw == IF max_width_arg = PyNone THEN self.max_width ELSE max_width_arg.n
      opened == IF HasRead(image_file) THEN ImageOpen(image_file)
                ELSE Return(image_file)
  IN IF opened.out = "raise" THEN Raise(opened.exc)
     ELSE IF opened.value.kind # "pil"
     THEN Raise(Exc("AttributeError", "mode"))
     ELSE LET resized == HandlerResize(ConvertForJpeg(opened.value), mw)
          IN IF resized.out = "raise" THEN Raise(resized.exc)
             ELSE PilSaveJpeg(resized.value, self.jpeg_quality)

\* ImageHandler.generate_file_path: produto_imagens/YYYY/MM/filename
generate_file_path(filename, now) ==
  <<"produto_imagens", now.year, now.month>> \o filename

\* ImageHandler.upload_to_supabase under the outcome `net` of the storage
\* service: the result and the upload requests sent to the bucket.
upload_to_supabase(self, image_buffer, filename, net, now) ==
  LET file_path == generate_file_path(filename, now)
      request == [bucket |-> self.bucket_name, path |-> file_path,
                  file |-> image_buffer]
      public_url == [url |-> self.supabase_url, bucket |-> self.bucket_name,
                     path |-> file_path]
  IN CASE net = "client_error" ->
            [result |-> Raise(Exc("SupabaseException", "create_client")),
             requests |-> <<>>]
       [] net = "upload_error" ->
            [result |-> Raise(Exc("StorageException", "upload")),
             requests |-> <<request>>]
       [] OTHER ->
            [result |-> Return(public_url), requests |-> <<request>>]

\* should_process_image without the production check.
should_process_image_AnyEnvironment(debug, image_field) ==
  /\ FieldTruthy(image_field)
  /\ HasFileAttr(image_field)
  /\ HasRead(image_field.file)

\* ImageHandler.should_process_image
should_process_image(debug, image_field) ==
  /\ ~debug
  /\ FieldTruthy(image_field)
  /\ HasFileAttr(image_field)
  /\ HasRead(image_field.file)

\* The guard that opens process_and_upload_image.
PauGuard(image_field) ==
  ~FieldTruthy(image_field) \/ ~HasFileAttr(image_field)

\* ------------------------------------------------------------- state
VARIABLES
  DEBUG,          \* settings.DEBUG
  environ,        \* os.environ, as os.getenv reads it
  image_handler,  \* the module-level instance, or the exception of its import
  input,          \* the image field the request carries (PyNone: none yet)
  call,           \* the call into the handler module and its position
  uploads,        \* the upload requests sent to the bucket for this input
  produto,        \* Produto.save on a product carrying the same field
  db              \* what super().save() persisted (PyNone: nothing)

vars == <<DEBUG, environ, image_handler, input, call, uploads, produto, db>>

Unimported == [out |-> "unimported"]

IdleCall == [op |-> "none", pc |-> "idle", image_file |-> PyNone,
             max_width |-> PyNone, filename |-> <<>>,
             resized_buffer |-> PyNone, result |-> PyNone]

IdleProduto == [pc |-> "idle", imagem |-> PyNone, caught |-> PyNone,
                result |-> PyNone]

\* datetime.now(), as far as generate_file_path reads it
Clock == {[year |-> "2024", month |-> "12"], [year |-> "2025", month |-> "01"]}
NetOutcomes == {"ok", "client_error", "upload_error"}

Init ==
  /\ DEBUG \in BOOLEAN
  /\ environ \in Environs
  /\ image_handler = Unimported
  /\ input = PyNone
  /\ call = IdleCall
  /\ uploads = <<>>
  /\ produto = IdleProduto
  /\ db = PyNone

\* image_handler = ImageHandler() at module level: a raise fails the import.
Import ==
  /\ image_handler = Unimported
  /\ image_handler' = ImageHandler(environ)
  /\ UNCHANGED <<DEBUG, environ, input, call, uploads, produto, db>>

\* A request arrives with an image field.
Receive(f) ==
  /\ image_handler.out = "return"
  /\ input = PyNone
  /\ input' = f
  /\ UNCHANGED <<DEBUG, environ, image_handler, call, uploads, produto, db>>

\* One call at a time: all operations are synchronous.
CanCall == input # PyNone /\ call.pc = "idle" /\ produto.pc \in {"idle", "done"}
CanSave == input # PyNone /\ produto.pc = "idle" /\ call.pc \in {"idle", "done"}

\* process_and_upload_image up to the resize: the guard and the file name.
PauEnter(c, image_field) ==
  IF PauGuard(image_field)
  THEN [c EXCEPT !.pc = "done", !.result = Return(PyNone)]
  ELSE [c EXCEPT !.pc = "resize", !.filename = basename(image_field.name)]

\* process_product_image up to the resize.
ProcessProductImageEnter(c, debug, image_field) ==
  IF should_process_image(debug, image_field)
  THEN PauEnter(c, image_field)
  ELSE [c EXCEPT !.pc = "done", !.result = Return(PyNone)]

\* The resize step with a failure recovered: None is returned instead.
PauResize_Recovers(self, c, image_field) ==
  LET r == resize_image(self, image_field.file, PyNone)
  IN IF r.out = "raise"
     THEN [c EXCEPT !.pc = "done", !.result = Return(PyNone)]
     ELSE [c EXCEPT !.pc = "upload", !.resized_buffer = r.value]

\* process_and_upload_image: resized_buffer = self.resize_image(image_field.file)
PauResize(self, c, image_field) ==
  LET r == resize_image(self, image_field.file, PyNone)
  IN IF r.out = "raise"
     THEN [c EXCEPT !.pc = "done", !.result = Raise(r.exc)]
     ELSE [c EXCEPT !.pc = "upload", !.resized_buffer = r.value]

\* The upload step handing over the field's own file.
PauUpload_Original(self, c, image_field, net, now) ==
  LET u == upload_to_supabase(self, image_field.file, c.filename, net, now)
  IN [call |-> [c EXCEPT !.pc = "done", !.result = u.result],
      requests |-> u.requests]

\* process_and_upload_image: public_url = self.upload_to_supabase(...)
PauUpload(self, c, image_field, net, now) ==
  LET u == upload_to_supabase(self, c.resized_buffer, c.filename, net, now)
  IN [call |-> [c EXCEPT !.pc = "done", !.result = u.result],
      requests |-> u.requests]

CallProcessProductImage ==
  /\ CanCall
  /\ call' = ProcessProductImageEnter(
                [call EXCEPT !.op = "process_product_image"], DEBUG, input)
  /\ UNCHANGED <<DEBUG, environ, image_handler, input, uploads, produto, db>>

CallProcessAndUploadImage ==
  /\ CanCall
  /\ call' = PauEnter([call EXCEPT !.op = "process_and_upload_image"], input)
  /\ UNCHANGED <<DEBUG, environ, image_handler, input, uploads, produto, db>>

Resize ==
  /\ call.pc = "resize"
  /\ call' = PauResize(image_handler.value, call, input)
  /\ UNCHANGED <<DEBUG, environ, image_handler, input, uploads, produto, db>>

Upload(net, now) ==
  /\ call.pc = "upload"
  /\ LET u == PauUpload(image_handler.value, call, input, net, now)
     IN /\ call' = u.call
        /\ uploads' = uploads \o u.requests
  /\ UNCHANGED <<DEBUG, environ, image_handler, input, produto, db>>

\* What a caller can hand to resize_image: the field's file, or the PIL image
\* opened from it.
ResizeArgs(image_field) ==
  IF ~HasFileAttr(image_field) THEN {}
  ELSE {image_field.file}
       \cup (IF image_field.file.kind = "file"
             THEN {ImageOpen(image_field.file).value} ELSE {})

MaxWidthArgs == {PyNone} \cup {PyInt(n) : n \in 1..MaxArgWidth}

\* A direct call image_handler.resize_image(image_file, max_width).
CallResizeImage(image_file, mw) ==
  /\ CanCall
  /\ image_file \in ResizeArgs(input)
  /\ call' = [call EXCEPT !.op = "resize_image", !.pc = "done",
                          !.image_file = image_file, !.max_width = mw,
                          !.result = resize_image(image_handler.value,
                                                  image_file, mw)]
  /\ UNCHANGED <<DEBUG, environ, image_handler, input, uploads, produto, db>>

\* -------------------------------------------------------- Produto.save
\* The condition of the image branch; evaluating self.imagem.file raises
\* when the attribute is absent.
SaveEnter(p, debug) ==
  IF ~debug /\ FieldTruthy(p.imagem)
  THEN IF ~HasFileAttr(p.imagem)
       THEN [p EXCEPT !.pc = "done",
                      !.result = Raise(Exc("AttributeError", "file"))]
       ELSE IF HasRead(p.imagem.file)
       THEN [p EXCEPT !.pc = "resize"]
       ELSE [p EXCEPT !.pc = "super"]
  ELSE [p EXCEPT !.pc = "super"]

\* except Exception as e: print(...) -- the exception caught is kept in
\* `caught` and save goes on to super().save().
SaveExcept(p, e) == [p EXCEPT !.pc = "super", !.caught = e]

\* The try block resizing from width >= new_width on.
SaveResizeBlock_AtLeast(p) ==
  LET opened == ImageOpen(p.imagem.file)
  IN IF opened.out = "raise" THEN SaveExcept(p, opened.exc)
     ELSE IF opened.value.width >= new_width
     THEN LET img == opened.value
              new_height == ScaledHeight(new_width, img.height, img.width)
              new_img == PilResize(img, new_width, new_height)
          IN IF new_img.out = "raise" THEN SaveExcept(p, new_img.exc)
             ELSE LET buffer == PilSaveJpeg(new_img.value, save_quality)
                  IN IF buffer.out = "raise" THEN SaveExcept(p, buffer.exc)
                     ELSE [p EXCEPT !.pc = "super",
                                    !.imagem = [name |-> basename(p.imagem.name),
                                                file |-> buffer.value]]
     ELSE [p EXCEPT !.pc = "super"]

\* The try block of the image branch.
SaveResizeBlock(p) ==
  LET opened == ImageOpen(p.imagem.file)
  IN IF opened.out = "raise" THEN SaveExcept(p, opened.exc)
     ELSE IF opened.value.width > new_width
     THEN LET img == opened.value
              new_height == ScaledHeight(new_width, img.height, img.width)
              new_img == PilResize(img, new_width, new_height)
          IN IF new_img.out = "raise" THEN SaveExcept(p, new_img.exc)
             ELSE LET buffer == PilSaveJpeg(new_img.value, save_quality)
                  IN IF buffer.out = "raise" THEN SaveExcept(p, buffer.exc)
                     ELSE [p EXCEPT !.pc = "super",
                                    !.imagem = [name |-> basename(p.imagem.name),
                                                file |-> buffer.value]]
     ELSE [p EXCEPT !.pc = "super"]

\* try: super().save() except: raise
SuperSave(p, ok) ==
  IF ok
  THEN [produto |-> [p EXCEPT !.pc = "done", !.result = Return(PyNone)],
        db |-> [imagem |-> p.imagem]]
  ELSE [produto |-> [p EXCEPT !.pc = "done",
                              !.result = Raise(Exc("DatabaseError", "super_save"))],
        db |-> PyNone]

SaveBegin ==
  /\ CanSave
  /\ produto' = SaveEnter([produto EXCEPT !.imagem = input], DEBUG)
  /\ UNCHANGED <<DEBUG, environ, image_handler, input, call, uploads, db>>

SaveResize ==
  /\ produto.pc = "resize"
  /\ produto' = SaveResizeBlock(produto)
  /\ UNCHANGED <<DEBUG, environ, image_handler, input, call, uploads, db>>

SaveSuper(ok) ==
  /\ produto.pc = "super"
  /\ LET r == SuperSave(produto, ok)
     IN /\ produto' = r.produto
        /\ db' = r.db
  /\ UNCHANGED <<DEBUG, environ, image_handler, input, call, uploads>>

Next ==
  \/ Import
  \/ \E f \in Fields : Receive(f)
  \/ CallProcessProductImage
  \/ CallProcessAndUploadImage
  \/ Resize
  \/ \E net \in NetOutcomes, now \in Clock : Upload(net, now)
  \/ \E f \in Files \cup {ImageOpen(x).value : x \in ImageFiles}, mw \in MaxWidthArgs :
        CallResizeImage(f, mw)
  \/ SaveBegin
  \/ SaveResize
  \/ \E ok \in BOOLEAN : SaveSuper(ok)

Spec == Init /\ [][Next]_vars

\* ------------------------------------------------------------- claims
IsImage(x) == x.kind \in {"file", "pil"}
Dims(x) == <<x.width, x.height>>
PauOps == {"process_product_image", "process_and_upload_image"}
\* The call went past the guards and reached the resize.
ReachedResize ==
  /\ call.op \in PauOps
  /\ ~PauGuard(input)
  /\ call.op = "process_product_image" => should_process_image(DEBUG, input)

\* C1: resize_image on a w x h image with max width m returns an image
\* m x floor(m*h/w) when w > m and w x h otherwise, never wider than m.
C1_ResizeImageContract ==
  (call.op = "resize_image" /\ call.pc = "done" /\ IsImage(call.image_file)) =>
    LET w == call.image_file.width
        h == call.image_file.height
        m == IF call.max_width = PyNone THEN max_width ELSE call.max_width.n
    IN /\ call.result.out = "return"
       /\ Dims(call.result.value)
            = IF w > m THEN <<m, (m * h) \div w>> ELSE <<w, h>>
       /\ call.result.value.width <= m

\* C2: process_and_upload_image sends at most one upload request, only after
\* resize_image returned, and the bytes sent are the buffer it returned, not
\* the field's original file.
C2_TransformThenUpload ==
  /\ Len(uploads) <= 1
  /\ uploads # <<>> =>
       LET rz == resize_image(image_handler.value, input.file, PyNone)
       IN /\ ReachedResize
          /\ rz.out = "return"
          /\ call.resized_buffer = rz.value
          /\ uploads[1].file = rz.value
          /\ uploads[1].file # input.file

C2_Witness ==
  /\ call.op = "process_and_upload_image"
  /\ call.pc = "done"
  /\ call.result.out = "return"
  /\ Len(uploads) = 1
  /\ input.file.width > max_width
  /\ uploads[1].file.width = max_width

\* C3: when resize_image or upload_to_supabase raises during
\* process_and_upload_image the caller gets that same exception and no URL,
\* and after a failed resize no upload request was sent.
C3_FailureReRaised ==
  (ReachedResize /\ call.pc = "done") =>
    LET self == image_handler.value
        rz == resize_image(self, input.file, PyNone)
    IN IF rz.out = "raise"
       THEN call.result = Raise(rz.exc) /\ uploads = <<>>
       ELSE \E net \in NetOutcomes, now \in Clock :
              LET u == upload_to_supabase(self, rz.value, call.filename, net, now)
              IN call.result = u.result /\ uploads = u.requests

C3_Witness ==
  /\ call.op = "process_and_upload_image"
  /\ call.pc = "done"
  /\ call.result = Raise(Exc("ValueError", "resize"))
  /\ uploads = <<>>

\* C4: save returns normally only when no step of its image flow raised; an
\* exception caught in the image branch reaches the caller of save.
C4_SavePropagates ==
  (produto.pc = "done" /\ produto.caught # PyNone) =>
    produto.result = Raise(produto.caught)

\* C5: process_product_image returns a URL only in production for a field
\* with a readable file; otherwise it returns None with no resize or upload.
C5_OnlyInProduction ==
  call.op = "process_product_image" =>
    /\ (call.pc = "done" /\ call.result.out = "return"
          /\ call.result.value # PyNone)
         => (~DEBUG /\ FieldTruthy(input) /\ HasFileAttr(input)
               /\ HasRead(input.file))
    /\ (DEBUG \/ ~FieldTruthy(input) \/ ~HasFileAttr(input)
          \/ ~HasRead(input.file))
         => /\ call.pc = "done"
            /\ call.result = Return(PyNone)
            /\ call.resized_buffer = PyNone
            /\ uploads = <<>>

C5_Witness ==
  /\ DEBUG
  /\ call.op = "process_product_image"
  /\ call.pc = "done"
  /\ call.result = Return(PyNone)
  /\ FieldTruthy(input) /\ HasFileAttr(input) /\ input.file.kind = "file"

\* C6: constructing ImageHandler raises when a credential is missing or
\* empty, so an existing instance holds three non-empty credentials.
C6_CredentialsValidated ==
  /\ image_handler.out = "return" =>
       /\ Truthy(image_handler.value.bucket_name)
       /\ Truthy(image_handler.value.supabase_url)
       /\ Truthy(image_handler.value.supabase_key)
  /\ (image_handler # Unimported
        /\ \E k \in DOMAIN environ : environ[k] \in {PyNone, PyStr("")})
       => image_handler.out = "raise"

C6_Witness ==
  /\ image_handler.out = "raise"
  /\ environ.AWS_STORAGE_BUCKET_NAME = PyStr("cred")
  /\ environ.AWS_S3_ENDPOINT_URL = PyStr("cred")
  /\ environ.AWS_SECRET_ACCESS_KEY = PyStr("")

\* The buffer the handler path produced for the input with the default
\* max width, when it completed.
HandlerOutput ==
  IF /\ call.op = "resize_image" /\ call.pc = "done"
     /\ call.max_width = PyNone /\ call.image_file = input.file
     /\ call.result.out = "return"
  THEN call.result.value
  ELSE call.resized_buffer

\* C7: for an input on which Produto.save and resize_image (max width 800)
\* both complete, the stored image has the same dimensions under either
\* path: 800 x floor(800*h/w) when w > 800, otherwise w x h.
C7_SameDimensions ==
  (/\ ~DEBUG
   /\ produto.pc = "done" /\ produto.result.out = "return"
   /\ HandlerOutput # PyNone) =>
    /\ Dims(db.imagem.file) = Dims(HandlerOutput)
    /\ Dims(db.imagem.file)
         = IF input.file.width > new_width
           THEN <<new_width, (new_width * input.file.height) \div input.file.width>>
           ELSE Dims(input.file)

\* C8: when DEBUG is true, the product has no image or the image is at most
\* 800 wide, the image field handed to super().save() is the one save was
\* entered with; it is replaced only when DEBUG is false and the width
\* exceeds 800.
C8_ImageUntouched ==
  (produto.pc = "super" \/ (produto.pc = "done" /\ db # PyNone)) =>
    /\ (DEBUG \/ ~FieldTruthy(input)
          \/ (input.file.kind = "file" /\ input.file.width <= new_width))
         => (produto.imagem.file = input.file
               /\ produto.imagem.name = input.name)
    /\ produto.imagem # input
         => (~DEBUG /\ input.file.kind = "file"
               /\ input.file.width > new_width)
    /\ db # PyNone => db.imagem = produto.imagem

C8_Witness ==
  /\ produto.pc = "super"
  /\ ~DEBUG
  /\ FieldTruthy(input)
  /\ input.file.kind = "file"
  /\ input.file.width = new_width
  /\ input.file.mode = "RGB"
  /\ produto.imagem = input

====
